---------------------------- MODULE Spec2Model ----------------------------
(***************************************************************************)
(* A model of easy_django_cli/cli.py: the search for manage.py             *)
(* (find_manage_py, _find_files_scan_dir, _get_top_level_directory) and    *)
(* the dispatch of the command (execute_django_command,                    *)
(* run_manage_py_command, run_django_admin_command, main).                 *)
(*                                                                         *)
(* A path is a sequence of names that starts with the anchor "/": the      *)
(* filesystem root is <<"/">>, /home/user is <<"/", "home", "user">>.      *)
(* Python's None is the empty sequence, which is no path.                  *)
(***************************************************************************)
EXTENDS Integers, Sequences, FiniteSets, TLC

VARIABLES
    fs,             \* the directory tree: path -> "dir" | "file" | "symlink"
                    \*   | "dirlink" | "unreadable" (see the kinds below)
    cwd,            \* Path.cwd().resolve()
    settings,       \* what `from django.conf import settings` and BASE_DIR give
    sys_argv,       \* sys.argv
    argv0,          \* history: sys.argv as the program was started
    pc,             \* position of the program
    search_current, \* find_manage_py: search_current
    top_level_dir,  \* find_manage_py: top_level_dir
    level,          \* find_manage_py: level
    scanned,        \* history: the directories handed to _find_files_scan_dir
    stack,          \* _find_files_scan_dir: per activation, the directories of
                    \*   dirs_to_search not yet visited (innermost last)
    entered,        \* history: the paths _find_files_scan_dir was called with
    stop,           \* history: the statement that ended the search
    manage_py,      \* find_manage_py's return value (a path or None)
    outcome,        \* what the underlying command did (see Outcomes)
    calls,          \* history: the underlying runs, in order
    exec_calls,     \* history: the arguments of execute_django_command's calls
    returned,       \* the function under execution has returned
    exit_code,      \* its return value (meaningful when returned)
    propagated,     \* the class of the exception that left it, "" if none
    main_result     \* main's return value (meaningful when pc = "done")

vars == <<fs, cwd, settings, sys_argv, argv0, pc, search_current, top_level_dir,
          level, scanned, stack, entered, stop, manage_py, outcome, calls,
          exec_calls, returned, exit_code, propagated, main_result>>

-----------------------------------------------------------------------------
(* Bounds of the model *)

\* the deepest current directory has this many ancestors
MaxDepth == 5
\* sys.argv carries at most this many arguments after the program name
MaxArgs == 2
\* the home directory is this many levels below the filesystem root
HomeDepth == 2
\* the deepest current directory of the runs of main()
MaxMainDepth == 3
MaxWalkDepth == 2

-----------------------------------------------------------------------------
(* Paths (pathlib.Path) *)

None == << >>
Root == <<"/">>

\* Path.parent: the root is its own parent
Parent(p) == IF Len(p) <= 1 THEN p ELSE SubSeq(p, 1, Len(p) - 1)

\* Path.name
Name(p) == p[Len(p)]

\* p / name
Join(p, n) == Append(p, n)

\* a is p or an ancestor of p
IsPrefix(a, p) == Len(a) <= Len(p) /\ SubSeq(p, 1, Len(a)) = a

IsProperAncestor(a, p) == IsPrefix(a, p) /\ a # p

\* Path.resolve() of an absolute path in a tree whose directories are not
\* symbolic links: ".." components are collapsed, "." components dropped
RECURSIVE Resolve(_)
Resolve(p) ==
    IF Len(p) <= 1 THEN p
    ELSE LET head == Resolve(SubSeq(p, 1, Len(p) - 1))
             last == p[Len(p)]
         IN  IF last = ".." THEN Parent(head)
             ELSE IF last = "." THEN head
             ELSE Append(head, last)

\* str.startswith('.')
StartsWithDot(n) == n \in {".git", ".hidden", ".", ".."}

-----------------------------------------------------------------------------
(* Program constants *)

SKIP_DIRS == {"venv", "virtualenv", "__pycache__", "node_modules", "static",
              "build", "dist", "logs", "log", "tmp", "media"}

TOP_LEVEL_SEARCH_MAX_DEPTH == 3

\* sys.executable
SysExecutable == "python"

-----------------------------------------------------------------------------
(* The directory tree *)

\* os.scandir(directory): the entries of a directory
Entries(f, d) == {p \in DOMAIN f : Len(p) = Len(d) + 1 /\ Parent(p) = d}

\* Path.exists(); no entry of the trees built here is a dangling link
Exists(f, p) == p \in DOMAIN f

\* the kinds of entries: "file" and "dir" are a regular file and a directory,
\* "unreadable" is a directory without read permission, "symlink" is a
\* symbolic link to a file and "dirlink" a symbolic link to a directory

\* the directory a "dirlink" points to: the links of the trees built here
\* point to the directory that holds them (ln -s . loop), a cycle
LinkTarget(p) == Parent(p)

\* entry.is_file(follow_symlinks=False), entry.is_dir(follow_symlinks=False)
IsFile(f, p) == f[p] = "file"
IsDir(f, p) == f[p] \in {"dir", "unreadable"}

\* with os.scandir(directory) raises OSError (PermissionError,
\* NotADirectoryError, FileNotFoundError) for what is no readable directory
Scannable(f, d) == d \in DOMAIN f /\ f[d] = "dir"

\* a slip: the name is tested, entry.is_file(follow_symlinks=False) is not
ScanMatchesAnyKind(f, d, filename) ==
    {e \in Entries(f, d) : Name(e) = filename}

\* _find_files_scan_dir: the entry of `directory` the loop returns
ScanMatches(f, d, filename) ==
    {e \in Entries(f, d) : IsFile(f, e) /\ Name(e) = filename}

\* a slip: entry.is_dir() follows symbolic links
DirsToSearchFollowingLinks(f, d, skip_dirs) ==
    {e \in Entries(f, d) :
        /\ IsDir(f, e) \/ f[e] = "dirlink"
        /\ ~(StartsWithDot(Name(e)) \/ Name(e) \in skip_dirs)}

\* a slip: hidden directories are skipped, the denylist is not consulted
DirsToSearchHiddenOnly(f, d, skip_dirs) ==
    {e \in Entries(f, d) : IsDir(f, e) /\ ~StartsWithDot(Name(e))}

\* _find_files_scan_dir: dirs_to_search
DirsToSearch(f, d, skip_dirs) ==
    {e \in Entries(f, d) :
        IsDir(f, e) /\ ~(StartsWithDot(Name(e)) \/ Name(e) \in skip_dirs)}

\* _find_files_scan_dir(directory, filename, skip_dirs): os.scandir yields the
\* entries in no specified order, so the value is the set of the paths that
\* some order returns; the empty set is the return value None
RECURSIVE FindFilesScanDir(_, _, _, _)
FindFilesScanDir(f, d, filename, skip_dirs) ==
    IF ~Scannable(f, d) THEN {}
    ELSE IF ScanMatches(f, d, filename) # {} THEN ScanMatches(f, d, filename)
    ELSE UNION {FindFilesScanDir(f, sub, filename, skip_dirs) :
                    sub \in DirsToSearch(f, d, skip_dirs)}

-----------------------------------------------------------------------------
(* Exceptions *)

ExceptionClasses ==
    {"BaseException", "SystemExit", "KeyboardInterrupt", "GeneratorExit",
     "Exception", "ImportError", "ModuleNotFoundError", "ImproperlyConfigured",
     "AttributeError", "RuntimeError", "OSError"}

\* the direct base class
Base(c) ==
    CASE c \in {"SystemExit", "KeyboardInterrupt", "GeneratorExit", "Exception"}
            -> "BaseException"
      [] c = "ModuleNotFoundError" -> "ImportError"
      [] c \in {"ImportError", "ImproperlyConfigured", "AttributeError",
                "RuntimeError", "OSError"} -> "Exception"
      [] OTHER -> "BaseException"

\* isinstance(an exception of class c, cls): what an except clause tests
RECURSIVE IsInstance(_, _)
IsInstance(c, cls) ==
    IF c = cls THEN TRUE
    ELSE IF c = "BaseException" THEN FALSE
    ELSE IsInstance(Base(c), cls)

-----------------------------------------------------------------------------
(* _get_top_level_directory *)

\* the values BASE_DIR can hold: None, a str (path << >> is the empty
\* string) or a Path
NoneValue == [type |-> "NoneType", path |-> None]
StrValue(p) == [type |-> "str", path |-> p]
PathValue(p) == [type |-> "Path", path |-> p]

\* the truth value of `base_dir`
Truthy(v) ==
    \/ v.type = "Path"
    \/ v.type = "str" /\ v.path # << >>

\* getattr(settings, "BASE_DIR", None): AttributeError gives the default,
\* any other exception of the access leaves getattr
GetattrBaseDir(s) ==
    IF s.access_exc = "" THEN [exc |-> "", value |-> s.BASE_DIR]
    ELSE IF IsInstance(s.access_exc, "AttributeError")
         THEN [exc |-> "", value |-> NoneValue]
    ELSE [exc |-> s.access_exc, value |-> NoneValue]

\* a slip: `except ImportError` in place of `except Exception`
GetTopLevelDirectoryImportErrorOnly(s) ==
    LET got    == GetattrBaseDir(s)
        raised == IF s.import_exc # "" THEN s.import_exc ELSE got.exc
    IN  IF raised # ""
        THEN IF IsInstance(raised, "ImportError")
             THEN [exc |-> "", value |-> None]
             ELSE [exc |-> raised, value |-> None]
        ELSE IF Truthy(got.value)
             THEN [exc |-> "", value |-> Resolve(Parent(got.value.path))]
             ELSE [exc |-> "", value |-> None]

\* _get_top_level_directory(): [exc: the class of the exception that leaves
\* it or "", value: the path returned or None]
GetTopLevelDirectory(s) ==
    LET got    == GetattrBaseDir(s)
        raised == IF s.import_exc # "" THEN s.import_exc ELSE got.exc
    IN  IF raised # ""
        THEN IF IsInstance(raised, "Exception")
             THEN [exc |-> "", value |-> None]
             ELSE [exc |-> raised, value |-> None]
        ELSE IF Truthy(got.value)
             THEN [exc |-> "", value |-> Resolve(Parent(got.value.path))]
             ELSE [exc |-> "", value |-> None]

-----------------------------------------------------------------------------
(* find_manage_py *)

\* a slip: the depth test lets one more ancestor through
StopReasonDepthOffByOne(f, sc, tld, lvl) ==
    IF Exists(f, Join(sc, ".git")) THEN "git"
    ELSE IF Exists(f, Join(sc, "pyproject.toml")) THEN "pyproject"
    ELSE IF tld = None /\ lvl > TOP_LEVEL_SEARCH_MAX_DEPTH THEN "max_depth"
    ELSE IF sc = tld THEN "top_level"
    ELSE IF Parent(sc) = sc THEN "root"
    ELSE ""

\* a slip: pyproject.toml is not taken for a boundary
StopReasonWithoutPyproject(f, sc, tld, lvl) ==
    IF Exists(f, Join(sc, ".git")) THEN "git"
    ELSE IF tld = None /\ lvl >= TOP_LEVEL_SEARCH_MAX_DEPTH THEN "max_depth"
    ELSE IF sc = tld THEN "top_level"
    ELSE IF Parent(sc) = sc THEN "root"
    ELSE ""

\* the statement of the loop body that ends the search after a scan that
\* found nothing, "" when the loop moves to the parent
StopReason(f, sc, tld, lvl) ==
    IF Exists(f, Join(sc, ".git")) THEN "git"
    ELSE IF Exists(f, Join(sc, "pyproject.toml")) THEN "pyproject"
    ELSE IF tld = None /\ lvl >= TOP_LEVEL_SEARCH_MAX_DEPTH THEN "max_depth"
    ELSE IF sc = tld THEN "top_level"
    ELSE IF Parent(sc) = sc THEN "root"
    ELSE ""

\* the scan at the head of the loop body
ScanLevel(f, sc) == FindFilesScanDir(f, sc, "manage.py", SKIP_DIRS)

-----------------------------------------------------------------------------
(* The inputs: directory trees, current directories, settings *)

\* the names of the directories from the root down to the current directory
ChainNames == <<"home", "user", "work", "proj", "app", "src", "pkg", "mod">>

\* the chain directory `i` levels below the root, in a tree whose current
\* directory (level c) is named "venv" when inVenv
ChainPath(i, c, inVenv) ==
    Root \o [j \in 1..i |->
                IF inVenv /\ j = c THEN "venv" ELSE ChainNames[j]]

\* what a tree holds beside its chain of directories: at most one marker
\* entry and at most one placement of a manage.py-like entry
Markers == {".git", "pyproject.toml"}

\* the placements: an entry directly in a chain directory, or a file
\* manage.py inside a subdirectory `sub` of it, and then possibly a second
\* one inside a subdirectory `twin` beside it
Placements ==
    [sub : {""}, twin : {""}, name : {"manage.py"},
     kind : {"file", "symlink", "dir"}]
    \cup [sub : {""}, twin : {""}, name : {"manage.pyc"}, kind : {"file"}]
    \cup [sub : {"core", ".hidden", "venv", "manage.py"}, twin : {""},
          name : {"manage.py"}, kind : {"file"}]
    \cup [sub : {"core"}, twin : {"api"}, name : {"manage.py"}, kind : {"file"}]

NoPlacement == [sub |-> "", twin |-> "", name |-> "manage.py", kind |-> "file"]

PlacementEntries(d, pl) ==
    IF pl.sub = "" THEN {<<Join(d, pl.name), pl.kind>>}
    ELSE {<<Join(d, pl.sub), "dir">>,
          <<Join(Join(d, pl.sub), pl.name), pl.kind>>}
         \cup (IF pl.twin = "" THEN {}
               ELSE {<<Join(d, pl.twin), "dir">>,
                     <<Join(Join(d, pl.twin), pl.name), pl.kind>>})

\* the tree as a function from the existing paths to their kinds
TreeOf(entries) ==
    [p \in {e[1] : e \in entries} |-> (CHOOSE e \in entries : e[1] = p)[2]]

\* markerAt, placeAt: a chain level, or -1 for none
Tree(c, inVenv, markerAt, marker, placeAt, pl) ==
    TreeOf({<<ChainPath(i, c, inVenv), "dir">> : i \in 0..c}
           \cup (IF markerAt < 0 THEN {}
                 ELSE {<<Join(ChainPath(markerAt, c, inVenv), marker),
                         IF marker = ".git" THEN "dir" ELSE "file">>})
           \cup (IF placeAt < 0 THEN {}
                 ELSE PlacementEntries(ChainPath(placeAt, c, inVenv), pl)))

\* Path.home()
Home == ChainPath(HomeDepth, 0, FALSE)

\* settings that cannot be read (DJANGO_SETTINGS_MODULE is not set)
Unconfigured ==
    [import_exc |-> "", access_exc |-> "ImproperlyConfigured",
     BASE_DIR |-> NoneValue]

Configured(v) == [import_exc |-> "", access_exc |-> "", BASE_DIR |-> v]

NoOutcome == [kind |-> "none", returncode |-> 0, exc |-> "",
              code |-> [type |-> "NoneType", value |-> 0]]

\* a BASE_DIR of a project that does not hold the current directory
ElsewhereBaseDir == <<"/", "srv", "site", "config">>

\* the settings of a tree: baseAt is the chain level of BASE_DIR, -1 for
\* settings that are not configured, -2 for a BASE_DIR elsewhere
SettingsOf(baseAt, c, inVenv) ==
    IF baseAt = -1 THEN Unconfigured
    ELSE IF baseAt = -2 THEN Configured(PathValue(ElsewhereBaseDir))
    ELSE Configured(PathValue(ChainPath(baseAt, c, inVenv)))

\* the state before find_manage_py() runs, with the current directory at most
\* maxDepth levels below the root
InitTree(maxDepth) ==
    \E c \in 0..maxDepth, inVenv \in BOOLEAN :
    \E markerAt \in -1..c, marker \in Markers :
    \E placeAt \in -1..c, pl \in Placements :
    \E baseAt \in -2..c :
        /\ inVenv => c > 0
        /\ markerAt < 0 => marker = ".git"
        /\ placeAt < 0 => pl = NoPlacement
        /\ fs = Tree(c, inVenv, markerAt, marker, placeAt, pl)
        /\ cwd = ChainPath(c, c, inVenv)
        /\ settings = SettingsOf(baseAt, c, inVenv)
        /\ sys_argv = <<"django", "--version">>
        /\ argv0 = sys_argv
        /\ pc = "main"
        /\ search_current = None
        /\ top_level_dir = None
        /\ level = 0
        /\ scanned = {}
        /\ stack = << >>
        /\ entered = {}
        /\ stop = ""
        /\ manage_py = None
        /\ outcome = NoOutcome
        /\ calls = << >>
        /\ exec_calls = << >>
        /\ returned = FALSE
        /\ exit_code = 0
        /\ propagated = ""
        /\ main_result = 0

-----------------------------------------------------------------------------
(* find_manage_py, as main calls it *)

\* main: manage_py = find_manage_py(); the statements before the loop
FindManagePyStart ==
    /\ pc = "main"
    /\ LET top == GetTopLevelDirectory(settings)
       IN  IF top.exc # ""
           THEN /\ propagated' = top.exc
                /\ pc' = "raised"
                /\ UNCHANGED <<search_current, top_level_dir>>
           ELSE /\ search_current' = Resolve(cwd)
                /\ top_level_dir' = top.value
                /\ pc' = "search"
                /\ UNCHANGED propagated
    /\ level' = 0
    /\ UNCHANGED <<fs, cwd, settings, argv0, stack, entered, sys_argv, scanned, stop, manage_py,
                   outcome, calls, exec_calls, returned, exit_code,
                   main_result>>

\* one pass of the while loop
SearchStep ==
    /\ pc = "search"
    /\ scanned' = scanned \cup {search_current}
    /\ LET found  == ScanLevel(fs, search_current)
           reason == StopReason(fs, search_current, top_level_dir, level)
       IN  IF found # {}
           THEN /\ \E r \in found : manage_py' = r
                /\ stop' = "found"
                /\ pc' = "dispatch"
                /\ UNCHANGED <<search_current, level>>
           ELSE IF reason # ""
           THEN /\ manage_py' = None
                /\ stop' = reason
                /\ pc' = "dispatch"
                /\ UNCHANGED <<search_current, level>>
           ELSE /\ search_current' = Parent(search_current)
                /\ level' = level + 1
                /\ UNCHANGED <<manage_py, stop, pc>>
    /\ UNCHANGED <<fs, cwd, settings, argv0, stack, entered, sys_argv, top_level_dir, outcome,
                   calls, exec_calls, returned, exit_code, propagated,
                   main_result>>

\* find_manage_py() on its own
InitFind == InitTree(MaxDepth)

NextFind == FindManagePyStart \/ SearchStep

SpecFind == InitFind /\ [][NextFind]_vars

-----------------------------------------------------------------------------
(* find_manage_py with the recursion of _find_files_scan_dir step by step *)

\* the activations whose for loop over dirs_to_search has nothing left return
\* None to their caller
RECURSIVE Unwind(_)
Unwind(st) ==
    IF st = << >> THEN st
    ELSE IF st[Len(st)] = {} THEN Unwind(SubSeq(st, 1, Len(st) - 1))
    ELSE st

\* the while loop's call _find_files_scan_dir(search_current, ...)
BeginScan ==
    /\ pc = "search"
    /\ scanned' = scanned \cup {search_current}
    /\ stack' = <<{search_current}>>
    /\ pc' = "scan"
    /\ UNCHANGED <<fs, cwd, settings, argv0, entered, sys_argv, search_current,
                   top_level_dir, level, stop, manage_py, outcome, calls,
                   exec_calls, returned, exit_code, propagated, main_result>>

\* one activation of _find_files_scan_dir, on a directory d that the
\* innermost running activation has still to visit: os.scandir raises and the
\* activation returns None, or an entry matches and every activation returns
\* it, or the activation goes on to its own dirs_to_search
ScanDir ==
    /\ pc = "scan"
    /\ stack # << >>
    /\ \E d \in stack[Len(stack)] :
        LET rest == [stack EXCEPT ![Len(stack)] = @ \ {d}]
        IN  /\ entered' = entered \cup {d}
            /\ IF ~Scannable(fs, d)
               THEN /\ stack' = Unwind(rest)
                    /\ UNCHANGED <<manage_py, stop, pc>>
               ELSE IF ScanMatches(fs, d, "manage.py") # {}
               THEN /\ \E r \in ScanMatches(fs, d, "manage.py") :
                           manage_py' = r
                    /\ stack' = << >>
                    /\ stop' = "found"
                    /\ pc' = "dispatch"
               ELSE /\ stack' =
                           Unwind(Append(rest, DirsToSearch(fs, d, SKIP_DIRS)))
                    /\ UNCHANGED <<manage_py, stop, pc>>
    /\ UNCHANGED <<fs, cwd, settings, argv0, sys_argv, search_current,
                   top_level_dir, level, scanned, outcome, calls, exec_calls,
                   returned, exit_code, propagated, main_result>>

\* the scan returned None: the rest of the loop body
EndScan ==
    /\ pc = "scan"
    /\ stack = << >>
    /\ LET reason == StopReason(fs, search_current, top_level_dir, level)
       IN  IF reason # ""
           THEN /\ manage_py' = None
                /\ stop' = reason
                /\ pc' = "dispatch"
                /\ UNCHANGED <<search_current, level>>
           ELSE /\ search_current' = Parent(search_current)
                /\ level' = level + 1
                /\ pc' = "search"
                /\ UNCHANGED <<manage_py, stop>>
    /\ UNCHANGED <<fs, cwd, settings, argv0, stack, entered, sys_argv,
                   top_level_dir, scanned, outcome, calls, exec_calls,
                   returned, exit_code, propagated, main_result>>

\* `extra` laid over the tree t
Overlay(t, extra) ==
    LET o == TreeOf(extra)
    IN  [p \in DOMAIN t \cup DOMAIN o |-> IF p \in DOMAIN o THEN o[p] ELSE t[p]]

\* a symbolic link "loop" in the directory d that points back to d
LoopEntries(d) == {<<Join(d, "loop"), "dirlink">>}

\* a directory without read permission: d itself, or a subdirectory
\* "private" of d that holds a manage.py
LockedEntries(d, lockSub) ==
    IF lockSub
    THEN {<<Join(d, "private"), "unreadable">>,
          <<Join(Join(d, "private"), "manage.py"), "file">>}
    ELSE {<<d, "unreadable">>}

\* the trees of the walk: those of InitTree, with a link cycle (linkAt) and
\* an unreadable directory (lockAt) at a chain level, -1 for none; the
\* settings are not configured, or BASE_DIR is elsewhere or the current
\* directory, and no directory of the chain is named "venv"
InitWalk ==
    \E c \in 0..MaxWalkDepth, inVenv \in {FALSE} :
    \E markerAt \in -1..c, marker \in Markers :
    \E placeAt \in -1..c, pl \in Placements :
    \E baseAt \in {-2, -1, c} :
    \E linkAt \in -1..c, lockAt \in -1..c, lockSub \in BOOLEAN :
        /\ markerAt < 0 => marker = ".git"
        /\ placeAt < 0 => pl = NoPlacement
        /\ lockAt < 0 => lockSub
        /\ fs = Overlay(Tree(c, inVenv, markerAt, marker, placeAt, pl),
                        (IF linkAt < 0 THEN {}
                         ELSE LoopEntries(ChainPath(linkAt, c, inVenv)))
                        \cup (IF lockAt < 0 THEN {}
                              ELSE LockedEntries(ChainPath(lockAt, c, inVenv),
                                                 lockSub)))
        /\ cwd = ChainPath(c, c, inVenv)
        /\ settings = SettingsOf(baseAt, c, inVenv)
        /\ sys_argv = <<"django", "--version">>
        /\ argv0 = sys_argv
        /\ pc = "main"
        /\ search_current = None
        /\ top_level_dir = None
        /\ level = 0
        /\ scanned = {}
        /\ stack = << >>
        /\ entered = {}
        /\ stop = ""
        /\ manage_py = None
        /\ outcome = NoOutcome
        /\ calls = << >>
        /\ exec_calls = << >>
        /\ returned = FALSE
        /\ exit_code = 0
        /\ propagated = ""
        /\ main_result = 0

NextWalk == FindManagePyStart \/ BeginScan \/ ScanDir \/ EndScan

\* the interpreter runs the next statement as long as there is one
SpecWalk == InitWalk /\ [][NextWalk]_vars /\ WF_vars(NextWalk)

-----------------------------------------------------------------------------
(* The underlying command *)

\* the codes a SystemExit carries: an int, None, or something else (a str)
IntCode(n) == [type |-> "int", value |-> n]
NoCode == [type |-> "NoneType", value |-> 0]
StrCode == [type |-> "str", value |-> 0]

ReturnCodes == {-9, -1, 0, 1, 2, 42}
ExitCodes == {IntCode(n) : n \in {0, 1, 2, 42}} \cup {NoCode, StrCode}

\* the exceptions the underlying run raises
RaisedClasses ==
    {"SystemExit", "ImportError", "ModuleNotFoundError", "RuntimeError",
     "OSError", "KeyboardInterrupt", "GeneratorExit"}

Returns(rc) == [kind |-> "returns", returncode |-> rc, exc |-> "", code |-> NoCode]
Raises(e, code) == [kind |-> "raises", returncode |-> 0, exc |-> e, code |-> code]
\* `from django.core.management import ...` fails
NoDjango(e) == [kind |-> "no_django", returncode |-> 0, exc |-> e, code |-> NoCode]

\* what subprocess.run(command) can do
SubprocessOutcomes ==
    {Returns(rc) : rc \in ReturnCodes}
    \cup {Raises("SystemExit", code) : code \in ExitCodes}
    \cup {Raises(e, NoCode) : e \in RaisedClasses \ {"SystemExit"}}

\* what the import and execute_from_command_line(sys.argv) can do
DjangoAdminOutcomes ==
    {Returns(0)}
    \cup {NoDjango(e) : e \in {"ImportError", "ModuleNotFoundError"}}
    \cup {Raises("SystemExit", code) : code \in ExitCodes}
    \cup {Raises(e, NoCode) : e \in RaisedClasses \ {"SystemExit"}}

\* the result of a call: the exception that leaves it (exc "" for none, with
\* a SystemExit's code), the value returned, the underlying runs it made and
\* sys.argv after it
Result(exc, code, value, made, argv) ==
    [exc |-> exc, code |-> code, value |-> value, calls |-> made, argv |-> argv]

\* a slip: the return code is reduced to success or failure
RunManagePyCommandZeroOrOne(manage_py_path, args, argv, out) ==
    LET command == <<SysExecutable, manage_py_path>> \o args
        made    == <<[fn |-> "subprocess.run", command |-> command]>>
    IN  IF out.kind = "returns"
        THEN Result("", NoCode, IF out.returncode = 0 THEN 0 ELSE 1, made, argv)
        ELSE Result(out.exc, out.code, 0, made, argv)

\* run_manage_py_command(manage_py_path, args)
RunManagePyCommand(manage_py_path, args, argv, out) ==
    LET command == <<SysExecutable, manage_py_path>> \o args
        made    == <<[fn |-> "subprocess.run", command |-> command]>>
    IN  IF out.kind = "returns"
        THEN Result("", NoCode, out.returncode, made, argv)
        ELSE Result(out.exc, out.code, 0, made, argv)

\* run_django_admin_command(args)
RunDjangoAdminCommand(args, argv, out) ==
    LET new_argv == <<"django-admin">> \o args
        made     == <<[fn |-> "execute_from_command_line", command |-> new_argv]>>
    IN  IF out.kind = "no_django"
        THEN Result(out.exc, out.code, 0, << >>, argv)
        ELSE IF out.kind = "returns"
        THEN Result("", NoCode, 0, made, new_argv)
        ELSE Result(out.exc, out.code, 0, made, new_argv)

\* execute_django_command: the value of `e.code if isinstance(e.code, int) else 1`
SystemExitValue(code) == IF code.type = "int" THEN code.value ELSE 1

\* execute_django_command: the except clauses, in their order; the value
\* returned for an exception of class e, or "propagates"
Handler(e) ==
    IF IsInstance(e, "SystemExit") THEN "SystemExit"
    ELSE IF IsInstance(e, "ImportError") THEN "ImportError"
    ELSE IF IsInstance(e, "Exception") THEN "Exception"
    ELSE IF IsInstance(e, "KeyboardInterrupt") THEN "KeyboardInterrupt"
    ELSE "propagates"

\* a slip: sys.argv[0:], the program name is forwarded too
ArgsOfWithProgramName(argv) == argv

\* sys.argv[1:]
ArgsOf(argv) == IF argv = << >> THEN << >> ELSE Tail(argv)

\* the route `if manage_py_path:` takes; a Path is always true
UsesManagePy(manage_py_path) == manage_py_path # None

\* execute_django_command(manage_py_path)
ExecuteDjangoCommand(manage_py_path, argv, out) ==
    LET args == ArgsOf(argv)
        r    == IF UsesManagePy(manage_py_path)
                THEN RunManagePyCommand(manage_py_path, args, argv, out)
                ELSE RunDjangoAdminCommand(args, argv, out)
    IN  IF r.exc = "" THEN r
        ELSE IF Handler(r.exc) = "SystemExit"
        THEN Result("", NoCode, SystemExitValue(r.code), r.calls, r.argv)
        ELSE IF Handler(r.exc) \in {"ImportError", "Exception", "KeyboardInterrupt"}
        THEN Result("", NoCode, 1, r.calls, r.argv)
        ELSE r

OutcomesFor(manage_py_path) ==
    IF UsesManagePy(manage_py_path) THEN SubprocessOutcomes
    ELSE DjangoAdminOutcomes

\* a call execute_django_command(path), after which the program is at `next`
Execute(path, next) ==
    \E out \in OutcomesFor(path) :
        LET r == ExecuteDjangoCommand(path, sys_argv, out)
        IN  /\ outcome' = out
            /\ exec_calls' = Append(exec_calls, path)
            /\ calls' = calls \o r.calls
            /\ sys_argv' = r.argv
            /\ returned' = (r.exc = "")
            /\ exit_code' = r.value
            /\ propagated' = r.exc
            /\ pc' = next
            /\ UNCHANGED <<fs, cwd, settings, argv0, stack, entered, search_current, top_level_dir,
                           level, scanned, stop, manage_py, main_result>>

-----------------------------------------------------------------------------
(* execute_django_command, called on its own *)

RECURSIVE SeqsUpTo(_, _)
SeqsUpTo(S, n) ==
    IF n = 0 THEN {<< >>}
    ELSE SeqsUpTo(S, n - 1) \cup [1..n -> S]

ArgWords == {"runserver", "8000", "--version"}

ManagePyPaths ==
    {None, <<"/", "manage.py">>, <<"/", "home", "user", "proj", "manage.py">>}

InitExec ==
    /\ fs = TreeOf({<<Root, "dir">>})
    /\ cwd = Root
    /\ settings = Unconfigured
    /\ sys_argv \in {<<"django">> \o a : a \in SeqsUpTo(ArgWords, MaxArgs)}
    /\ argv0 = sys_argv
    /\ pc = "execute"
    /\ search_current = None
    /\ top_level_dir = None
    /\ level = 0
    /\ scanned = {}
    /\ stack = << >>
    /\ entered = {}
    /\ stop = ""
    /\ manage_py \in ManagePyPaths
    /\ outcome = NoOutcome
    /\ calls = << >>
    /\ exec_calls = << >>
    /\ returned = FALSE
    /\ exit_code = 0
    /\ propagated = ""
    /\ main_result = 0

ExecuteCall ==
    /\ pc = "execute"
    /\ Execute(manage_py, "executed")

NextExec == ExecuteCall

SpecExec == InitExec /\ [][NextExec]_vars

-----------------------------------------------------------------------------
(* main *)

\* a slip: main dispatches without the path it found
MainArgumentDropped(found) == None

\* main: the argument of execute_django_command(manage_py)
MainArgument(found) == found

\* main: return execute_django_command(manage_py)
MainExecute ==
    /\ pc = "dispatch"
    /\ Execute(MainArgument(manage_py), "return")

MainReturn ==
    /\ pc = "return"
    /\ IF propagated = ""
       THEN /\ main_result' = exit_code
            /\ pc' = "done"
       ELSE /\ pc' = "raised"
            /\ UNCHANGED main_result
    /\ UNCHANGED <<fs, cwd, settings, argv0, stack, entered, sys_argv, search_current, top_level_dir,
                   level, scanned, stop, manage_py, outcome, calls, exec_calls,
                   returned, exit_code, propagated>>

Init == InitTree(MaxMainDepth)

Next == FindManagePyStart \/ SearchStep \/ MainExecute \/ MainReturn

Spec == Init /\ [][Next]_vars

-----------------------------------------------------------------------------
(* _get_top_level_directory, called on its own *)

\* the values of BASE_DIR: absolute paths without "." and ".." components, as
\* Path(__file__).resolve().parent.parent of a settings module gives them
BaseDirPaths ==
    {ChainPath(i, 0, FALSE) : i \in 0..MaxDepth}
    \cup {<<"/", "srv", "site">>, <<"/", "home", "user", "site", "config">>}

BaseDirValues ==
    {NoneValue, StrValue(<< >>)}
    \cup {StrValue(p) : p \in BaseDirPaths}
    \cup {PathValue(p) : p \in BaseDirPaths}

\* import_exc: Django is not importable; access_exc: reading BASE_DIR raises
\* (ImproperlyConfigured when the settings are not configured, AttributeError
\* when they hold no BASE_DIR)
SettingsStates ==
    [import_exc : {"", "ImportError", "ModuleNotFoundError"},
     access_exc : {"", "ImproperlyConfigured", "AttributeError", "RuntimeError"},
     BASE_DIR : BaseDirValues]

InitTop ==
    /\ fs = TreeOf({<<Root, "dir">>})
    /\ cwd = Root
    /\ settings \in SettingsStates
    /\ sys_argv = <<"django">>
    /\ argv0 = sys_argv
    /\ pc = "top_level"
    /\ search_current = None
    /\ top_level_dir = None
    /\ level = 0
    /\ scanned = {}
    /\ stack = << >>
    /\ entered = {}
    /\ stop = ""
    /\ manage_py = None
    /\ outcome = NoOutcome
    /\ calls = << >>
    /\ exec_calls = << >>
    /\ returned = FALSE
    /\ exit_code = 0
    /\ propagated = ""
    /\ main_result = 0

\* top_level_dir = _get_top_level_directory()
TopLevelCall ==
    /\ pc = "top_level"
    /\ LET top == GetTopLevelDirectory(settings)
       IN  /\ top_level_dir' = top.value
           /\ returned' = (top.exc = "")
           /\ propagated' = top.exc
    /\ pc' = "top_done"
    /\ UNCHANGED <<fs, cwd, settings, argv0, stack, entered, sys_argv, search_current, level,
                   scanned, stop, manage_py, outcome, calls, exec_calls,
                   exit_code, main_result>>

NextTop == TopLevelCall

SpecTop == InitTop /\ [][NextTop]_vars

-----------------------------------------------------------------------------
(* The claims *)

\* the arguments after the program name, as the program was started
StartArgs == Tail(argv0)

\* C1: execute_django_command forwards the arguments unchanged, complete and
\* in order. With a manage.py path it makes exactly one underlying run, the
\* subprocess [interpreter, manage.py path] + args; with none it makes the
\* in-process call with ["django-admin"] + args (and no run at all when
\* Django cannot be imported).
C1_ArgsForwarded ==
    pc = "executed" =>
        IF manage_py # None
        THEN calls = <<[fn |-> "subprocess.run",
                        command |-> <<SysExecutable, manage_py>> \o StartArgs]>>
        ELSE IF outcome.kind = "no_django" THEN calls = << >>
        ELSE calls = <<[fn |-> "execute_from_command_line",
                        command |-> <<"django-admin">> \o StartArgs]>>

\* C1 witness: a subprocess run that was handed two different arguments
C1_Witness ==
    /\ pc = "executed"
    /\ manage_py # None
    /\ Len(StartArgs) = 2
    /\ StartArgs[1] # StartArgs[2]
    /\ Len(calls) = 1
    /\ Len(calls[1].command) = 4

\* C2: on the manage.py route, when subprocess.run returns,
\* execute_django_command returns its return code as it is, for zero,
\* positive and negative codes.
C2_ReturnCodeMirrored ==
    (pc = "executed" /\ manage_py # None /\ outcome.kind = "returns") =>
        (returned /\ propagated = "" /\ exit_code = outcome.returncode)

\* C2 witness: a subprocess that ended with a negative return code
C2_Witness ==
    /\ pc = "executed"
    /\ manage_py # None
    /\ outcome.kind = "returns"
    /\ outcome.returncode < 0
    /\ exit_code = outcome.returncode

\* the status a Python process ends with when SystemExit(code) reaches the
\* interpreter: the code itself for an int, 0 for None, 1 for anything else
PythonExitStatus(code) ==
    IF code.type = "int" THEN code.value
    ELSE IF code.type = "NoneType" THEN 0
    ELSE 1

\* C3: whenever the underlying command ends by raising SystemExit,
\* execute_django_command returns the exit status the command itself would
\* have exited with: n for an integer code n, 0 for a SystemExit without a
\* code, 1 for a code that is no integer.
C3_SystemExitMirrored ==
    (pc = "executed" /\ outcome.kind = "raises" /\ outcome.exc = "SystemExit") =>
        (returned /\ propagated = "" /\ exit_code = PythonExitStatus(outcome.code))

\* C4: execute_django_command never raises: every exception of the underlying
\* run other than SystemExit is caught and the function returns 1.
C4_NeverRaises ==
    (pc = "executed" /\ outcome.kind \in {"raises", "no_django"}
                     /\ outcome.exc # "SystemExit") =>
        (returned /\ propagated = "" /\ exit_code = 1)

\* the regular files manage.py that lie beneath directory a and are reached
\* from it through real directories that are neither hidden nor denylisted
ManagePyBeneath(f, a) ==
    {p \in DOMAIN f :
        /\ IsProperAncestor(a, p)
        /\ f[p] = "file"
        /\ Name(p) = "manage.py"
        /\ \A k \in (Len(a) + 1)..(Len(p) - 1) :
              /\ SubSeq(p, 1, k) \in DOMAIN f
              /\ f[SubSeq(p, 1, k)] = "dir"
              /\ ~StartsWithDot(p[k])
              /\ p[k] \notin SKIP_DIRS}

\* the directory p and its first n ancestors
WithAncestors(p, n) ==
    {SubSeq(p, 1, Len(p) - k) : k \in {j \in 0..n : j < Len(p)}}

\* directory d contains an entry named .git or pyproject.toml
HasMarker(f, d) == \E m \in Markers : Join(d, m) \in DOMAIN f

NoMarkerVisited == \A d \in scanned : ~HasMarker(fs, d)

\* C5: with no top-level directory and no marker in a visited directory,
\* find_manage_py returns a manage.py if and only if one is reachable beneath
\* the current directory or one of its first three ancestors; what it
\* returns is such a file.
C5_DepthLimitedSearch ==
    (pc = "dispatch" /\ top_level_dir = None /\ NoMarkerVisited) =>
        LET within == UNION {ManagePyBeneath(fs, a) :
                        a \in WithAncestors(cwd, TOP_LEVEL_SEARCH_MAX_DEPTH)}
        IN  /\ (manage_py # None) <=> (within # {})
            /\ manage_py # None => manage_py \in within

\* C5 witness: the only manage.py lies in the fourth ancestor, and the
\* search ended with None
C5_Witness ==
    /\ pc = "dispatch"
    /\ top_level_dir = None
    /\ NoMarkerVisited
    /\ manage_py = None
    /\ Len(cwd) >= 5
    /\ Join(SubSeq(cwd, 1, Len(cwd) - 4), "manage.py") \in
           ManagePyBeneath(fs, SubSeq(cwd, 1, Len(cwd) - 4))

\* C6 as stated: a scanned directory with a marker is the last one scanned,
\* and a manage.py inside a directory with a marker is found from every
\* subdirectory of it.
C6_FoundFromAnySubdirectory ==
    /\ \A m \in scanned : HasMarker(fs, m) =>
           \A d \in scanned : ~IsProperAncestor(d, m)
    /\ pc = "dispatch" =>
           \A m \in DOMAIN fs :
               (IsPrefix(m, cwd) /\ HasMarker(fs, m)
                    /\ ManagePyBeneath(fs, m) # {}) => manage_py # None

\* C6 amended: once the upward search reaches a directory with a marker, that
\* directory is scanned and is the last one scanned: the search ends there,
\* with a manage.py of its subtree if one is reachable and with None
\* otherwise, and no ancestor of it is ever scanned.
C6_MarkerDirIsLast ==
    \A m \in scanned : HasMarker(fs, m) =>
        /\ \A d \in scanned : ~IsProperAncestor(d, m)
        /\ pc = "dispatch"
        /\ search_current = m
        /\ IF ManagePyBeneath(fs, m) # {}
           THEN manage_py \in ManagePyBeneath(fs, m) /\ stop = "found"
           ELSE manage_py = None /\ stop \in {"git", "pyproject"}

\* C6 witness: the search began below a directory with .git, ended there
\* with None, and the directory above holds a manage.py
C6_Witness ==
    /\ pc = "dispatch"
    /\ stop = "git"
    /\ manage_py = None
    /\ search_current # cwd
    /\ search_current \in scanned
    /\ ManagePyBeneath(fs, Parent(search_current)) # {}

\* C7: a path find_manage_py returns names an existing regular file whose
\* name is manage.py, never a directory or a symbolic link.
C7_ReturnsRegularFile ==
    manage_py # None =>
        /\ manage_py \in DOMAIN fs
        /\ fs[manage_py] = "file"
        /\ Name(manage_py) = "manage.py"

\* C7 witness: the file returned lies inside a directory that is itself
\* named manage.py
C7_Witness ==
    /\ pc = "dispatch"
    /\ manage_py # None
    /\ Name(Parent(manage_py)) = "manage.py"
    /\ fs[Parent(manage_py)] = "dir"

\* execute_django_command has been called
Dispatched == outcome.kind # "none"

\* C8: main searches first and then dispatches exactly once: the one call of
\* execute_django_command is made after the search has ended and is handed
\* the value find_manage_py returned; with None the django-admin route is
\* taken and no subprocess is run; main returns what that call returned.
C8_SearchThenDispatchOnce ==
    /\ ~Dispatched => (exec_calls = << >> /\ calls = << >>)
    /\ Dispatched =>
           /\ stop # ""
           /\ pc \in {"return", "done", "raised"}
           /\ exec_calls = <<manage_py>>
           /\ manage_py = None =>
                  /\ \A i \in 1..Len(calls) :
                         calls[i].fn = "execute_from_command_line"
                  /\ outcome.kind # "no_django" => Len(calls) = 1
           /\ manage_py # None =>
                  /\ Len(calls) = 1
                  /\ calls[1].fn = "subprocess.run"
                  /\ calls[1].command[2] = manage_py
    /\ pc = "done" => (returned /\ main_result = exit_code)

\* C8 witness: no manage.py was found, the django-admin call ended with
\* SystemExit(42) and main returned 42
C8_Witness ==
    /\ pc = "done"
    /\ manage_py = None
    /\ exec_calls = <<None>>
    /\ Len(calls) = 1
    /\ outcome.exc = "SystemExit"
    /\ main_result = 42

\* BASE_DIR is neither None nor empty
NonEmpty(v) == v.type # "NoneType" /\ v.path # << >>

\* d is the directory that holds p (the root holds itself)
IsParentDirectoryOf(d, p) ==
    IF p = Root THEN d = Root
    ELSE d # None /\ Join(d, Name(p)) = p

C10_StopsAtHome ==
    IsPrefix(Home, cwd) =>
        \A d \in scanned : ~IsProperAncestor(d, Home)


\* the ancestors of the current directory that the upward walk has scanned
AncestorsVisited == scanned \ {cwd}

\* C11: whenever a top-level directory is determined, the search stops at it
\* and is not system-wide: from every starting directory the upward walk
\* scans no proper ancestor of the top-level directory, and it visits no
\* more ancestors than the depth limit allows without a top-level directory.
C11_StopsAtTopLevel ==
    top_level_dir # None =>
        /\ \A d \in AncestorsVisited : ~IsProperAncestor(d, top_level_dir)
        /\ Cardinality(AncestorsVisited) <= TOP_LEVEL_SEARCH_MAX_DEPTH


\* a directory name that is hidden or denylisted
SkippedName(n) == StartsWithDot(n) \/ n \in SKIP_DIRS

\* the regular files named manage.py
ManagePyFiles(f) == {p \in DOMAIN f : f[p] = "file" /\ Name(p) = "manage.py"}

\* p lies inside a directory with a hidden or denylisted name
InsideSkipped(p) == \E k \in 2..(Len(p) - 1) : SkippedName(p[k])

\* p lies inside such a directory that is neither the current directory nor
\* one of its ancestors
InsideSkippedBelowWalk(p) ==
    \E k \in 2..(Len(p) - 1) :
        SkippedName(p[k]) /\ ~IsPrefix(SubSeq(p, 1, k), cwd)

\* C12 as stated: the manage.py returned never lies inside a directory whose
\* name starts with '.' or is in SKIP_DIRS, and a manage.py that exists only
\* inside such directories is reported as not found.
C12_NeverInsideSkipped ==
    /\ manage_py # None => ~InsideSkipped(manage_py)
    /\ (pc = "dispatch" /\ \A p \in ManagePyFiles(fs) : InsideSkipped(p)) =>
           manage_py = None

\* C12 amended: the names of the current directory and of its ancestors are
\* not tested; the manage.py returned never lies inside any other hidden or
\* denylisted directory, and a manage.py that exists only inside such other
\* directories is reported as not found.
C12_SkipsBelowScannedDirs ==
    /\ manage_py # None => ~InsideSkippedBelowWalk(manage_py)
    /\ (pc = "dispatch"
            /\ \A p \in ManagePyFiles(fs) : InsideSkippedBelowWalk(p)) =>
           manage_py = None

\* C12 witness: the only manage.py lies in a denylisted subdirectory of a
\* directory that was scanned, and the search ended with None
C12_Witness ==
    /\ pc = "dispatch"
    /\ manage_py = None
    /\ ManagePyFiles(fs) # {}
    /\ \A p \in ManagePyFiles(fs) :
           /\ Name(Parent(p)) \in SKIP_DIRS
           /\ InsideSkippedBelowWalk(p)
           /\ Parent(Parent(p)) \in scanned

\* the step-by-step scan and the scan as one value agree on what a level yields
WalkAgreesWithScan ==
    /\ (pc = "dispatch" /\ manage_py # None) =>
           manage_py \in ScanLevel(fs, search_current)
    /\ (pc = "scan" /\ stack = << >>) => ScanLevel(fs, search_current) = {}

\* a directory itself, not a symbolic link to one
RealDirectory(f, p) == p \in DOMAIN f /\ f[p] \in {"dir", "unreadable"}

\* the while loop moved search_current, and to a proper ancestor of it
MovesToStrictAncestor ==
    (search_current # None /\ search_current' # search_current) =>
        /\ IsProperAncestor(search_current', search_current)
        /\ Len(search_current') >= Len(Root)

\* C13: find_manage_py terminates on every finite tree, link cycles and
\* unreadable directories included: every run reaches the return of
\* find_manage_py; each upward step moves search_current to a proper ancestor,
\* the root at the latest; the downward scan is only ever called on real
\* directories, never on a symbolic link; and a directory whose scan fails
\* counts as empty, so nothing beneath it is scanned or returned.
C13_Terminates ==
    /\ <>(pc = "dispatch")
    /\ [](\A d \in entered : RealDirectory(fs, d))
    /\ [](\A d \in entered \ scanned : fs[Parent(d)] = "dir")
    /\ [](manage_py # None => fs[Parent(manage_py)] = "dir")
    /\ [][MovesToStrictAncestor]_vars

\* the search returned nothing after scanning a directory that holds a link
\* back to itself and after trying an unreadable directory that holds a
\* manage.py
C13_Witness ==
    /\ pc = "dispatch"
    /\ manage_py = None
    /\ \E l \in DOMAIN fs :
           /\ fs[l] = "dirlink"
           /\ fs[Parent(l)] = "dir"
           /\ LinkTarget(l) \in entered
    /\ \E u \in entered :
           /\ fs[u] = "unreadable"
           /\ Join(u, "manage.py") \in DOMAIN fs


=============================================================================
